---- MODULE Spec2Model ----
(***************************************************************************)
(* Model of the IR_HITS backend: the PageRank engine                       *)
(* (backend/algorithms/pagerank.py), the HITS engine                       *)
(* (backend/algorithms/hits.py) and the FastAPI handlers that serve them   *)
(* (backend/main.py).                                                      *)
(*                                                                         *)
(* Numbers.  The engines compute on floating-point numbers; the model      *)
(* computes on the exact values those floats approximate.  A PageRank      *)
(* score is a rational <<num, den>> in lowest terms with den > 0.  A HITS  *)
(* vector is [num |-> <<p1..pn>>, rad |-> q], the vector whose i-th entry  *)
(* is p_i / sqrt(q): every entry of a HITS vector is an integer divided by *)
(* the same square root, because the only irrational operation of the      *)
(* engine is the division of a whole vector by its Euclidean norm.         *)
(*                                                                         *)
(* Indices.  The code numbers nodes 0..n-1; the model numbers them 1..n    *)
(* (position in the node list), so model index i is code index i-1.        *)
(***************************************************************************)
EXTENDS Integers, Sequences, FiniteSets, TLC

VARIABLES
    nodes,            \* the node list given to the engines (main.py _nodes)
    edges,            \* the edge list given to the engines (main.py _edges)
    pc,               \* position of the call the running thread serves
    endpoint,         \* which handler / direct call it serves
    request,          \* AlgorithmRequest / constructor arguments of the engines
    M_prime,          \* PageRank.calculate: M_prime
    R,                \* PageRank.calculate: R (raw, never rescaled inside the loop)
    history,          \* PageRank.calculate: history
    iterations,       \* calculate: iterations (of the engine running or just run)
    outlinks,         \* HITS.calculate: outlinks
    inlinks,          \* HITS.calculate: inlinks
    authority,        \* HITS.calculate: authority
    hub,              \* HITS.calculate: hub
    new_authority,    \* HITS.calculate: new_authority before normalization (ll. 70-77)
    new_hub,          \* HITS.calculate: new_hub before normalization (ll. 71-83)
    pagerank_result,  \* what PageRank.calculate returned (or raised)
    hits_result,      \* what HITS.calculate returned
    response,         \* what the handler answered
    parked            \* the locals of the other worker thread while this one runs

vars == <<nodes, edges, pc, endpoint, request, M_prime, R, history, iterations,
          outlinks, inlinks, authority, hub, new_authority, new_hub,
          pagerank_result, hits_result, response, parked>>

----------------------------------------------------------------------------
(* Bounds of the model *)

\* longest edge list
MaxEdges == 3
\* largest max_iterations a request asks for
MaxIter == 2
\* largest max_iterations a direct call of the HITS engine asks for
MaxHITSIter == 3

\* the k of the top-k lists (pagerank.py l. 135, hits.py ll. 111, 115)
TopK == 5

----------------------------------------------------------------------------
(* Exact rational arithmetic *)

Abs(x) == IF x < 0 THEN -x ELSE x

RECURSIVE GCD(_, _)
GCD(a, b) == IF b = 0 THEN a ELSE GCD(b, a % b)

LCM(a, b) == (a \div GCD(a, b)) * b

\* the rational num/den (den # 0) in lowest terms with a positive denominator
Rat(num, den) ==
    LET g == GCD(Abs(num), Abs(den))
        s == IF den < 0 THEN -1 ELSE 1
    IN  <<s * (num \div g), s * (den \div g)>>

Zero == <<0, 1>>
One == <<1, 1>>

RAdd(x, y) ==
    LET l == LCM(x[2], y[2])
    IN  Rat(x[1] * (l \div x[2]) + y[1] * (l \div y[2]), l)

RNeg(x) == <<-x[1], x[2]>>

RSub(x, y) == RAdd(x, RNeg(y))

RMul(x, y) ==
    LET g1 == GCD(Abs(x[1]), y[2])
        g2 == GCD(Abs(y[1]), x[2])
    IN  <<(x[1] \div g1) * (y[1] \div g2), (x[2] \div g2) * (y[2] \div g1)>>

\* x / y for y # 0
RDiv(x, y) ==
    IF y[1] < 0 THEN RMul(x, <<-y[2], -y[1]>>) ELSE RMul(x, <<y[2], y[1]>>)

RAbs(x) == <<Abs(x[1]), x[2]>>

RLess(x, y) ==
    LET l == LCM(x[2], y[2])
    IN  x[1] * (l \div x[2]) < y[1] * (l \div y[2])

RECURSIVE RSum(_)
\* the sum of a sequence of rationals
RSum(s) == IF s = <<>> THEN Zero ELSE RAdd(s[1], RSum(Tail(s)))

RECURSIVE ISum(_)
\* the sum of a sequence of integers
ISum(s) == IF s = <<>> THEN 0 ELSE s[1] + ISum(Tail(s))

Range(s) == {s[i] : i \in DOMAIN s}

\* the sequence f itself, with its entries computed once: TLC
\* computes an entry of [i \in 1..n |-> e] anew each time it is read
AsTuple(f) == f \o <<>>

----------------------------------------------------------------------------
(* Graph index: labels to positions, label edges to index edges *)

\* node_to_idx = {node: idx for idx, node in enumerate(nodes)}; on a repeated
\* label the dict keeps the last position
NodeToIdx(ns) ==
    [l \in Range(ns) |-> CHOOSE i \in DOMAIN ns :
                            ns[i] = l /\ \A j \in DOMAIN ns : ns[j] = l => j <= i]

RECURSIVE EdgeIndicesKnownSource(_, _)
\* a conversion that checks the source only and sends an unknown target to the
\* first node
EdgeIndicesKnownSource(ns, es) ==
    IF es = <<>> THEN <<>>
    ELSE LET e == es[1]
             rest == EdgeIndicesKnownSource(ns, Tail(es))
         IN  IF e[1] \in Range(ns)
             THEN <<<<NodeToIdx(ns)[e[1]],
                      IF e[2] \in Range(ns) THEN NodeToIdx(ns)[e[2]] ELSE 1>>>> \o rest
             ELSE rest

RECURSIVE EdgeIndices(_, _)
\* the loop that converts label edges to index edges, skipping every edge with
\* an endpoint that is not a node
EdgeIndices(ns, es) ==
    IF es = <<>> THEN <<>>
    ELSE LET e == es[1]
             rest == EdgeIndices(ns, Tail(es))
         IN  IF e[1] \in Range(ns) /\ e[2] \in Range(ns)
             THEN <<<<NodeToIdx(ns)[e[1]], NodeToIdx(ns)[e[2]]>>>> \o rest
             ELSE rest

----------------------------------------------------------------------------
(* PageRank engine *)

\* an adjacency entry that counts every occurrence of the edge j -> i
AdjacencyEntryCounting(ei, i, j) ==
    Cardinality({k \in DOMAIN ei : ei[k] = <<j, i>>})

\* M[target_idx, source_idx] = 1: the entry of row i, column j after the loop
\* over the edges; an assignment, so a repeated edge leaves a 1
AdjacencyEntry(ei, i, j) ==
    IF \E k \in DOMAIN ei : ei[k] = <<j, i>> THEN 1 ELSE 0

AdjacencyMatrix(n, ei) ==
    AsTuple([i \in 1..n |-> AsTuple([j \in 1..n |-> AdjacencyEntry(ei, i, j)])])

\* col_sums = M.sum(axis=0)
ColSums(n, M) == AsTuple([j \in 1..n |-> ISum([i \in 1..n |-> M[i][j]])])

\* a column normalization that leaves the column of a dangling node at zero
ColumnEntryNoDangling(n, a, colsum) ==
    IF colsum = 0 THEN Zero ELSE Rat(a, colsum)

\* the entry of a column after normalization: uniform 1/n in the column of a
\* node without outlinks, the adjacency entry over the column sum otherwise
ColumnEntry(n, a, colsum) ==
    IF colsum = 0 THEN Rat(1, n) ELSE Rat(a, colsum)

BuildTransitionMatrix(n, ei) ==
    LET M == AdjacencyMatrix(n, ei)
        col_sums == ColSums(n, M)
    IN  AsTuple([i \in 1..n |->
            AsTuple([j \in 1..n |-> ColumnEntry(n, M[i][j], col_sums[j])])])

\* R = np.ones(n) / n  (an empty vector when n = 0: numpy divides no element)
InitialR(n) == AsTuple([i \in 1..n |-> Rat(1, n)])

RECURSIVE UpdateFrom(_, _, _, _, _)
\* the entries i..n of v updated one after the other, each written into v
\* before the next is computed
UpdateFrom(M, v, d, n, i) ==
    IF i > n THEN v
    ELSE UpdateFrom(M,
                    [v EXCEPT ![i] =
                         RAdd(RMul(d, RSum([j \in 1..n |-> RMul(M[i][j], v[j])])),
                              RDiv(RSub(One, d), <<n, 1>>))],
                    d, n, i + 1)

\* an update in place: a node reads the new scores of the nodes before it
PageRankUpdateInPlace(M, Rv, d, n) == UpdateFrom(M, Rv, d, n, 1)

\* an update that takes the teleportation term away instead of adding it
PageRankUpdateMinusTeleport(M, Rv, d, n) ==
    LET epsilon == RSub(One, d)
        teleport == RDiv(epsilon, <<n, 1>>)
    IN  AsTuple([i \in 1..n |->
            RSub(RMul(d, RSum([j \in 1..n |-> RMul(M[i][j], Rv[j])])),
                 RMul(teleport, One))])

\* R_new = damping_factor * (M_prime @ R) + (epsilon / n) * U, for n >= 1
PageRankUpdate(M, Rv, d, n) ==
    LET epsilon == RSub(One, d)
        teleport == RDiv(epsilon, <<n, 1>>)
    IN  AsTuple([i \in 1..n |->
            RAdd(RMul(d, RSum([j \in 1..n |-> RMul(M[i][j], Rv[j])])),
                 RMul(teleport, One))])

\* np.sum(np.abs(a - b))
L1Diff(a, b) == RSum([i \in DOMAIN a |-> RAbs(RSub(a[i], b[i]))])

\* {nodes[i]: float(v[i]) for i in range(n)}
NodeScores(ns, v) ==
    LET node_to_idx == NodeToIdx(ns)
    IN  [l \in Range(ns) |-> v[node_to_idx[l]]]

\* a rescale by the largest entry
RescaleByMax(Rv) ==
    LET m == CHOOSE x \in Range(Rv) : \A y \in Range(Rv) : ~RLess(x, y)
    IN  AsTuple([i \in DOMAIN Rv |-> RDiv(Rv[i], m)])

\* R = R / np.sum(R)  (an empty vector stays empty)
Rescale(Rv) ==
    LET total == RSum(Rv)
    IN  AsTuple([i \in DOMAIN Rv |-> RDiv(Rv[i], total)])

\* an order by score descending that puts equal scores last-first
SortedDescTiesReversed(n, gt) ==
    LET before(i) == {j \in 1..n : gt[j][i] \/ (j > i /\ ~gt[i][j])}
    IN  AsTuple([p \in 1..n |-> CHOOSE i \in 1..n : Cardinality(before(i)) = p - 1])

RECURSIVE RanksBelow(_, _)
\* the vectors of k ranks, the i-th below size[i]
RanksBelow(k, size) ==
    IF k = 0 THEN {<<>>}
    ELSE {Append(u, r) : u \in RanksBelow(k - 1, size), r \in 0..(size[k] - 1)}

\* The scores of a result are kept as exact numbers; the code returns doubles,
\* and entries whose exact scores are equal can come out as doubles that
\* differ in the last places (a sum taken in another order, l. 111 of
\* pagerank.py, ll. 75-83 of hits.py).  A rounding gives each entry the rank
\* of its double among the doubles returned for the same exact score, 0 for
\* the least; the double of an entry is its exact score read with its rank.
\* tied[i][j]: entries i and j have the same exact score and can round
\* apart.  Within a class of tied entries the ranks are 0..m without a gap;
\* an entry tied with nothing has rank 0.  same[i][j]: entries i and j come
\* from the same operations on the same doubles, and are one double.
\* A class of m tied entries comes out as 1 to m distinct doubles, in any
\* order of the entries: every rank below m can be taken.
Roundings(n, tied, same) ==
    {u \in RanksBelow(n, AsTuple([i \in 1..n |->
                              IF tied[i][i]
                              THEN Cardinality({j \in 1..n : tied[i][j]})
                              ELSE 1])) :
        \A i \in 1..n :
            LET class == {j \in 1..n : tied[i][j]}
            IN  /\ IF class = {} THEN u[i] = 0
                   ELSE /\ \E j \in class : u[j] = 0
                        /\ \A r \in 1..u[i] : \E j \in class : u[j] = r - 1
                /\ \A j \in class : same[i][j] => u[i] = u[j]}

\* the rounding under which equal exact scores are equal doubles
NoRounding(n) == AsTuple([i \in 1..n |-> 0])

\* the positions 1..n ordered as sorted(items, key=score, reverse=True) orders
\* them: by score descending, equal scores in their original order (Python's
\* sort is stable, also with reverse=True).  gt[i][j]: score i > score j.
SortedDesc(n, gt) ==
    LET before(i) == {j \in 1..n : gt[j][i] \/ (j < i /\ ~gt[i][j])}
    IN  AsTuple([p \in 1..n |-> CHOOSE i \in 1..n : Cardinality(before(i)) = p - 1])

Min(a, b) == IF a < b THEN a ELSE b

\* [{node: score} for node, score in sorted_nodes[:5]], each single-entry dict
\* written <<node, score>>
TopList(ns, v, order) ==
    AsTuple([p \in 1..Min(TopK, Len(ns)) |-> <<ns[order[p]], v[order[p]]>>])

\* a pass that never breaks
PageRankIterationNeverStops(ns, M, Rv, hist, it, req) ==
    LET R_new == PageRankUpdate(M, Rv, req.damping_factor, Len(ns))
    IN  [R |-> R_new,
         history |-> Append(hist, [iteration |-> it + 1,
                                   scores |-> NodeScores(ns, R_new)]),
         iterations |-> it + 1,
         stop |-> FALSE]

\* a pass that breaks when the distance is above the threshold
PageRankIterationStopsAbove(ns, M, Rv, hist, it, req) ==
    LET R_new == PageRankUpdate(M, Rv, req.damping_factor, Len(ns))
        diff == L1Diff(R_new, Rv)
    IN  [R |-> R_new,
         history |-> Append(hist, [iteration |-> it + 1,
                                   scores |-> NodeScores(ns, R_new)]),
         iterations |-> it + 1,
         stop |-> RLess(req.convergence_threshold, diff)]

\* one pass of the loop body (ll. 110-125) from the frozen vector Rv, with
\* `it` passes done before it; stop is the break of l. 124
PageRankIteration(ns, M, Rv, hist, it, req) ==
    LET R_new == PageRankUpdate(M, Rv, req.damping_factor, Len(ns))
        diff == L1Diff(R_new, Rv)
    IN  [R |-> R_new,
         history |-> Append(hist, [iteration |-> it + 1,
                                   scores |-> NodeScores(ns, R_new)]),
         iterations |-> it + 1,
         stop |-> RLess(diff, req.convergence_threshold)]

\* the roundings the doubles of R / np.sum(R) can have after `it` passes:
\* before the first pass every entry is the one double 1 / n, after it equal
\* exact scores are sums that the matrix product (l. 111) may take in
\* different orders for different rows
PageRankRoundings(Rv, it) ==
    LET final == Rescale(Rv)
    IN  Roundings(Len(Rv),
            AsTuple([i \in 1..Len(Rv) |->
                AsTuple([j \in 1..Len(Rv) |-> it > 0 /\ final[i] = final[j]])]),
            AsTuple([i \in 1..Len(Rv) |->
                AsTuple([j \in 1..Len(Rv) |-> i = j])]))

\* ll. 127-144: the one rescale, the score mapping, the top 5, the result dict;
\* u is the rounding of the doubles of R, and the sort of l. 134 compares the
\* doubles: the exact scores, and the ranks where these are equal
PageRankReturn(ns, Rv, hist, it, req, u) ==
    LET final == Rescale(Rv)
        order == SortedDesc(Len(ns),
                     AsTuple([i \in 1..Len(ns) |->
                         AsTuple([j \in 1..Len(ns) |->
                             \/ RLess(final[j], final[i])
                             \/ final[i] = final[j] /\ u[i] > u[j]])]))
    IN  [raised |-> "none",
         node_scores |-> NodeScores(ns, final),
         top_nodes |-> TopList(ns, final, order),
         iterations |-> it,
         convergence_threshold |-> req.convergence_threshold,
         damping_factor |-> req.damping_factor,
         history |-> hist,
         rounding |-> AsTuple(u)]

\* the call left by an exception: epsilon / n with n = 0 (l. 111) is a Python
\* float divided by the int 0
PageRankRaised(req) ==
    [raised |-> "ZeroDivisionError",
     node_scores |-> <<>>, top_nodes |-> <<>>, iterations |-> 0,
     convergence_threshold |-> req.convergence_threshold,
     damping_factor |-> req.damping_factor,
     history |-> <<>>,
     rounding |-> <<>>]

RECURSIVE PageRankLoop(_, _, _, _, _, _)
\* the loop of ll. 109-125 run to its end, for n >= 1
PageRankLoop(ns, M, Rv, hist, it, req) ==
    IF it >= req.max_iterations THEN [R |-> Rv, history |-> hist, iterations |-> it]
    ELSE LET s == PageRankIteration(ns, M, Rv, hist, it, req)
         IN  IF s.stop THEN [R |-> s.R, history |-> s.history, iterations |-> s.iterations]
             ELSE PageRankLoop(ns, M, s.R, s.history, s.iterations, req)

\* PageRank(damping_factor, max_iterations, convergence_threshold)
\*     .calculate(nodes, edges), as one function of its inputs and of the
\* rounding u of the doubles it returns
PageRankCalculate(ns, es, req, u) ==
    LET n == Len(ns)
        M == BuildTransitionMatrix(n, EdgeIndices(ns, es))
    IN  IF n = 0 /\ req.max_iterations > 0 THEN PageRankRaised(req)
        ELSE LET f == PageRankLoop(ns, M, InitialR(n), <<>>, 0, req)
             IN  PageRankReturn(ns, f.R, f.history, f.iterations, req, u)

----------------------------------------------------------------------------
(* Natural numbers of any size, as little-endian digit sequences: the exact   *)
(* comparison of a HITS distance with the threshold needs products that do    *)
(* not fit TLC's integers.                                                    *)

BigBase == 100 * 100

RECURSIVE BigOfInt(_)
BigOfInt(x) == IF x = 0 THEN <<>> ELSE <<x % BigBase>> \o BigOfInt(x \div BigBase)

RECURSIVE BigTrim(_)
\* without the zeros at the most significant end
BigTrim(a) ==
    IF a = <<>> THEN <<>>
    ELSE IF a[Len(a)] = 0 THEN BigTrim(SubSeq(a, 1, Len(a) - 1)) ELSE a

RECURSIVE BigAddC(_, _, _)
BigAddC(a, b, c) ==
    IF a = <<>> /\ b = <<>> THEN (IF c = 0 THEN <<>> ELSE <<c>>)
    ELSE LET x == IF a = <<>> THEN 0 ELSE a[1]
             y == IF b = <<>> THEN 0 ELSE b[1]
             t == x + y + c
         IN  <<t % BigBase>> \o BigAddC(IF a = <<>> THEN <<>> ELSE Tail(a),
                                        IF b = <<>> THEN <<>> ELSE Tail(b),
                                        t \div BigBase)

BigAdd(a, b) == BigAddC(a, b, 0)

RECURSIVE BigLessR(_, _)
\* a < b for trimmed a and b of the same length
BigLessR(a, b) ==
    IF a = <<>> THEN FALSE
    ELSE IF a[Len(a)] # b[Len(b)] THEN a[Len(a)] < b[Len(b)]
    ELSE BigLessR(SubSeq(a, 1, Len(a) - 1), SubSeq(b, 1, Len(b) - 1))

BigLess(a, b) ==
    LET x == BigTrim(a)
        y == BigTrim(b)
    IN  IF Len(x) # Len(y) THEN Len(x) < Len(y) ELSE BigLessR(x, y)

RECURSIVE BigSubB(_, _, _)
BigSubB(a, b, borrow) ==
    IF a = <<>> THEN <<>>
    ELSE LET y == IF b = <<>> THEN 0 ELSE b[1]
             t == a[1] - y - borrow
         IN  <<IF t < 0 THEN t + BigBase ELSE t>>
             \o BigSubB(Tail(a), IF b = <<>> THEN <<>> ELSE Tail(b),
                        IF t < 0 THEN 1 ELSE 0)

\* a - b for a >= b
BigSub(a, b) == BigTrim(BigSubB(a, b, 0))

RECURSIVE BigMulDigit(_, _, _)
BigMulDigit(a, d, c) ==
    IF a = <<>> THEN (IF c = 0 THEN <<>> ELSE <<c>>)
    ELSE LET t == a[1] * d + c
         IN  <<t % BigBase>> \o BigMulDigit(Tail(a), d, t \div BigBase)

RECURSIVE BigMul(_, _)
BigMul(a, b) ==
    IF a = <<>> THEN <<>>
    ELSE BigTrim(BigAdd(BigMulDigit(b, a[1], 0), <<0>> \o BigMul(Tail(a), b)))

BigSq(a) == BigMul(a, a)

----------------------------------------------------------------------------
(* HITS engine *)

RECURSIVE LinksFrom(_, _, _)
\* the list node i ends with when each edge appends to it: position `mine` of
\* every edge whose position 3 - `mine` is i, in edge order, repeats kept
LinksFrom(ei, i, mine) ==
    IF ei = <<>> THEN <<>>
    ELSE IF ei[1][3 - mine] = i THEN <<ei[1][mine]>> \o LinksFrom(Tail(ei), i, mine)
    ELSE LinksFrom(Tail(ei), i, mine)

\* outlinks[source_idx].append(target_idx)
BuildOutlinks(n, ei) == AsTuple([i \in 1..n |-> LinksFrom(ei, i, 2)])

\* inlinks[target_idx].append(source_idx)
BuildInlinks(n, ei) == AsTuple([i \in 1..n |-> LinksFrom(ei, i, 1)])

\* np.ones(n): every entry 1 = 1 / sqrt(1)
InitialScores(n) == [num |-> AsTuple([i \in 1..n |-> 1]), rad |-> 1]

\* new[i] = 0, then new[i] += v[j] for j in links[i]; v is the vector of the
\* previous iteration, the sum keeps its square root
Accumulate(links, v) ==
    [num |-> AsTuple([i \in DOMAIN links |->
                 ISum([k \in DOMAIN links[i] |-> v.num[links[i][k]]])]),
     rad |-> v.rad]

SumSq(p) == ISum([i \in DOMAIN p |-> p[i] * p[i]])

RECURSIVE GCDSeq(_)
GCDSeq(p) == IF p = <<>> THEN 0 ELSE GCD(p[1], GCDSeq(Tail(p)))

\* a normalization that divides by the sum of the entries
NormalizeBySum(v) ==
    IF ISum(v.num) > 0
    THEN [num |-> v.num, rad |-> ISum(v.num) * ISum(v.num)]
    ELSE v

\* norm = np.linalg.norm(v); if norm > 0: v = v / norm.  The norm of
\* p / sqrt(q) is sqrt(SumSq(p) / q), so the quotient is p / sqrt(SumSq(p)),
\* written with the common factor of p taken out of both
Normalize(v) ==
    IF SumSq(v.num) > 0
    THEN LET g == GCDSeq(v.num)
         IN  [num |-> AsTuple([i \in DOMAIN v.num |-> v.num[i] \div g]),
              rad |-> SumSq(v.num) \div (g * g)]
    ELSE v

Sign(x) == IF x > 0 THEN 1 ELSE IF x < 0 THEN -1 ELSE 0

\* np.sum(np.abs(a - b)) < thr, decided exactly.  With a = p / sqrt(s) and
\* b = r / sqrt(t) (entries >= 0), |a_i - b_i| has the sign g_i of
\* p_i^2 t - r_i^2 s, so the distance is D = P / sqrt(s) - Q / sqrt(t) >= 0 with
\* P = sum g_i p_i and Q = sum g_i r_i.  For thr = x / y > 0, D < thr iff
\* D^2 < thr^2 iff  T1 - T2 < 2 P Q y^2 sqrt(s t)  with
\* T1 = (P^2 t + Q^2 s) y^2 and T2 = x^2 s t, which squaring once more decides.
L1DiffLess(a, b, thr) ==
    LET s == a.rad
        t == b.rad
        g == [i \in DOMAIN a.num |->
                 Sign(a.num[i] * a.num[i] * t - b.num[i] * b.num[i] * s)]
        P == ISum([i \in DOMAIN a.num |-> g[i] * a.num[i]])
        Q == ISum([i \in DOMAIN a.num |-> g[i] * b.num[i]])
        x == thr[1]
        y == thr[2]
        st == BigMul(BigOfInt(s), BigOfInt(t))
        yy == BigOfInt(y * y)
        T1 == BigMul(BigAdd(BigMul(BigOfInt(P * P), BigOfInt(t)),
                            BigMul(BigOfInt(Q * Q), BigOfInt(s))), yy)
        T2 == BigMul(BigOfInt(x * x), st)
        V == BigMul(BigMul(BigOfInt(4 * P * P), BigOfInt(Q * Q)),
                    BigMul(st, BigSq(yy)))
    IN  IF x <= 0 THEN FALSE
        ELSE IF BigLess(T1, T2)
             THEN Sign(P) * Sign(Q) >= 0 \/ BigLess(V, BigSq(BigSub(T2, T1)))
             ELSE Sign(P) * Sign(Q) > 0 /\ BigLess(BigSq(BigSub(T1, T2)), V)


\* np.sum(np.abs(a - b)) = thr, decided exactly: with the names of L1DiffLess,
\* D = thr iff T1 - T2 = 2 P Q y^2 sqrt(s t)
L1DiffEqual(a, b, thr) ==
    LET s == a.rad
        t == b.rad
        g == [i \in DOMAIN a.num |->
                 Sign(a.num[i] * a.num[i] * t - b.num[i] * b.num[i] * s)]
        P == ISum([i \in DOMAIN a.num |-> g[i] * a.num[i]])
        Q == ISum([i \in DOMAIN a.num |-> g[i] * b.num[i]])
        x == thr[1]
        y == thr[2]
        st == BigMul(BigOfInt(s), BigOfInt(t))
        yy == BigOfInt(y * y)
        T1 == BigMul(BigAdd(BigMul(BigOfInt(P * P), BigOfInt(t)),
                            BigMul(BigOfInt(Q * Q), BigOfInt(s))), yy)
        T2 == BigMul(BigOfInt(x * x), st)
        V == BigMul(BigMul(BigOfInt(4 * P * P), BigOfInt(Q * Q)),
                    BigMul(st, BigSq(yy)))
    IN  IF BigLess(T1, T2)
        THEN Sign(P) * Sign(Q) < 0 /\ BigTrim(V) = BigTrim(BigSq(BigSub(T2, T1)))
        ELSE Sign(P) * Sign(Q) >= 0 /\ BigTrim(V) = BigTrim(BigSq(BigSub(T1, T2)))

\* a pass that sums the new hub vector from the authority vector it has just
\* computed
HITSIterationInPlace(inl, outl, a, h, it, req) ==
    LET raw_authority == Accumulate(inl, h)
        norm_authority == Normalize(raw_authority)
        raw_hub == Accumulate(outl, norm_authority)
        norm_hub == Normalize(raw_hub)
    IN  [new_authority |-> raw_authority,
         new_hub |-> raw_hub,
         authority |-> norm_authority,
         hub |-> norm_hub,
         iterations |-> it + 1,
         stop |-> /\ L1DiffLess(norm_authority, a, req.convergence_threshold)
                  /\ L1DiffLess(norm_hub, h, req.convergence_threshold)]

\* a pass that breaks when either distance is below the threshold
HITSIterationStopsOnEither(inl, outl, a, h, it, req) ==
    LET raw_authority == Accumulate(inl, h)
        raw_hub == Accumulate(outl, a)
        norm_authority == Normalize(raw_authority)
        norm_hub == Normalize(raw_hub)
    IN  [new_authority |-> raw_authority,
         new_hub |-> raw_hub,
         authority |-> norm_authority,
         hub |-> norm_hub,
         iterations |-> it + 1,
         stop |-> \/ L1DiffLess(norm_authority, a, req.convergence_threshold)
                  \/ L1DiffLess(norm_hub, h, req.convergence_threshold)]

\* one pass of the loop body (ll. 70-103): both new vectors come from the
\* vectors of the previous pass, which are replaced only at the end; stop is
\* the break of l. 102
HITSIteration(inl, outl, a, h, it, req) ==
    LET raw_authority == Accumulate(inl, h)
        raw_hub == Accumulate(outl, a)
        norm_authority == Normalize(raw_authority)
        norm_hub == Normalize(raw_hub)
    IN  [new_authority |-> raw_authority,
         new_hub |-> raw_hub,
         authority |-> norm_authority,
         hub |-> norm_hub,
         iterations |-> it + 1,
         stop |-> /\ L1DiffLess(norm_authority, a, req.convergence_threshold)
                  /\ L1DiffLess(norm_hub, h, req.convergence_threshold)]

\* a score p / sqrt(q) of a HITS vector, written <<p, q>>
ScoreVector(v) == AsTuple([i \in DOMAIN v.num |-> <<v.num[i], v.rad>>])

\* the roundings the doubles of a HITS vector can have after `it` passes: the
\* first pass sums ones and divides the whole numbers it gets by one norm, so
\* equal exact scores are one double; from the second pass on the sums of
\* ll. 75-83 add doubles in the order of the link list, so two nodes with the
\* same link list have one double and two with different lists may not.  A
\* score of 0 is the double 0.0.  links is the list the vector is summed
\* over: inlinks for authority, outlinks for hub.
HITSRoundings(v, links, it) ==
    Roundings(Len(v.num),
        AsTuple([i \in 1..Len(v.num) |->
            AsTuple([j \in 1..Len(v.num) |->
                it > 1 /\ v.num[i] # 0 /\ v.num[i] = v.num[j]])]),
        AsTuple([i \in 1..Len(v.num) |->
            AsTuple([j \in 1..Len(v.num) |-> links[i] = links[j]])]))

\* ll. 105-123: the two score mappings, the two top 5, the result dict (which
\* has no "history" key); ua and uh are the roundings of the doubles of the
\* two vectors, and the sorts of ll. 110, 114 compare the doubles
HITSReturn(ns, a, h, it, ua, uh) ==
    LET a_order == SortedDesc(Len(ns),
                       [i \in 1..Len(ns) |-> [j \in 1..Len(ns) |->
                           \/ a.num[i] > a.num[j]
                           \/ a.num[i] = a.num[j] /\ ua[i] > ua[j]]])
        h_order == SortedDesc(Len(ns),
                       [i \in 1..Len(ns) |-> [j \in 1..Len(ns) |->
                           \/ h.num[i] > h.num[j]
                           \/ h.num[i] = h.num[j] /\ uh[i] > uh[j]]])
    IN  [raised |-> "none",
         authority_scores |-> NodeScores(ns, ScoreVector(a)),
         hub_scores |-> NodeScores(ns, ScoreVector(h)),
         top_authorities |-> TopList(ns, ScoreVector(a), a_order),
         top_hubs |-> TopList(ns, ScoreVector(h), h_order),
         iterations |-> it,
         authority_rounding |-> AsTuple(ua),
         hub_rounding |-> AsTuple(uh)]

RECURSIVE HITSLoop(_, _, _, _, _, _)
\* the loop of ll. 69-103 run to its end
HITSLoop(inl, outl, a, h, it, req) ==
    IF it >= req.max_iterations THEN [authority |-> a, hub |-> h, iterations |-> it]
    ELSE LET s == HITSIteration(inl, outl, a, h, it, req)
         IN  IF s.stop
             THEN [authority |-> s.authority, hub |-> s.hub, iterations |-> s.iterations]
             ELSE HITSLoop(inl, outl, s.authority, s.hub, s.iterations, req)

\* HITS(max_iterations, convergence_threshold).calculate(nodes, edges), as one
\* function of its inputs and of the roundings ua, uh of the doubles it returns
HITSCalculate(ns, es, req, ua, uh) ==
    LET n == Len(ns)
        ei == EdgeIndices(ns, es)
        f == HITSLoop(BuildInlinks(n, ei), BuildOutlinks(n, ei),
                      InitialScores(n), InitialScores(n), 0, req)
    IN  HITSReturn(ns, f.authority, f.hub, f.iterations, ua, uh)

----------------------------------------------------------------------------
(* Inputs *)

\* the labels a node list is made of, in alphabetical order
Labels == <<"A", "B", "C">>

\* a label that is in no node list
Unknown == "X"

\* node lists: unique labels, none to three of them; the positions of the
\* nodes relative to the edges vary with the edge list
NodeLists == {SubSeq(Labels, 1, k) : k \in 0..Len(Labels)}

\* the pairs the edge list given with the node list ns is made of: every pair
\* of its nodes, an edge from a node to a label that is not a node and one from
\* such a label to a node; with no node, an edge between two such labels
EdgePairs(ns) ==
    (Range(ns) \X Range(ns))
        \cup (IF ns = <<>> THEN {<<Unknown, Unknown>>}
              ELSE {<<ns[1], Unknown>>, <<Unknown, ns[1]>>})

LabelPos(l) == IF l = Unknown THEN 0 ELSE CHOOSE i \in DOMAIN Labels : Labels[i] = l

PairPos(e) == LabelPos(e[1]) * (Len(Labels) + 1) + LabelPos(e[2])

\* the lists of at most MaxEdges pairs of `pairs`, repeats allowed, each list in
\* one order of its pairs (no result of an engine depends on the order of the
\* edge list: the matrix is assigned by position and the sums are exact)
PairLists(pairs) ==
    {es \in UNION {[1..k -> pairs] : k \in 0..MaxEdges} :
        \A i \in 1..(Len(es) - 1) : PairPos(es[i]) <= PairPos(es[i + 1])}

\* the graphs a caller gives to an engine
Graphs == UNION {{<<ns, es>> : es \in PairLists(EdgePairs(ns))} : ns \in NodeLists}

\* longer node lists, for the cut of the top lists at TopK
WideLabels == <<"A", "B", "C", "D", "E", "F">>

\* node lists of none to six unique labels
WideNodeLists == {SubSeq(WideLabels, 1, k) : k \in 0..Len(WideLabels)}

\* the edges the edge list given with a longer node list is taken from
WideEdges == <<<<"A", "F">>, <<"B", "F">>, <<"F", "E">>, <<"C", "C">>, <<"E", "A">>>>

RECURSIVE SubLists(_)
\* the lists made of some of the entries of s, in the order of s
SubLists(s) ==
    IF s = <<>> THEN {<<>>}
    ELSE LET rest == SubLists(Tail(s))
         IN  rest \cup {<<s[1]>> \o r : r \in rest}

\* longer graphs a caller gives to an engine; an edge that names a label
\* beyond the node list has an endpoint that is not a node
WideGraphs == {<<ns, es>> : ns \in WideNodeLists, es \in SubLists(WideEdges)}

\* damping_factor, a float in (0, 1): 0.5 and the default 0.85
Dampings == {<<1, 2>>, <<17, 20>>}

\* convergence_threshold, a positive float: the default 0.0001 and 2/7.  The
\* code compares doubles (pagerank.py l. 124, hits.py l. 102), the model exact
\* values; the two agree unless a distance meets the threshold to within the
\* rounding of the doubles, which on these graphs means exactly.  2/7 is a
\* value no distance takes (DistanceOffThreshold).
Thresholds == {<<1, 10000>>, <<2, 7>>}

\* AlgorithmRequest (graph_models.py ll. 70-74); the fields are not validated,
\* so max_iterations = 0 is accepted
Requests ==
    [damping_factor : Dampings, max_iterations : 0..MaxIter,
     convergence_threshold : Thresholds]

\* the arguments of HITS(max_iterations, convergence_threshold)
HITSRequests == [max_iterations : 0..MaxHITSIter, convergence_threshold : Thresholds]

\* the request bodies sent to the handlers: damping_factor left at its default
BodyRequests == {req \in Requests : req.damping_factor = <<17, 20>>}

----------------------------------------------------------------------------
(* State machine *)

NoRequest == [max_iterations |-> 0, convergence_threshold |-> Zero]

\* an Optional[...] field left at None
None == [present |-> FALSE, value |-> <<>>]

Some(v) == [present |-> TRUE, value |-> v]

NoResult == [raised |-> "not called"]

NoVector == [num |-> <<>>, rad |-> 1]

NoResponse == [status |-> 0]

\* the locals of a call that has not started
Idle ==
    /\ pc = "idle"
    /\ endpoint = "none"
    /\ request = NoRequest
    /\ M_prime = <<>>
    /\ R = <<>>
    /\ history = <<>>
    /\ iterations = 0
    /\ outlinks = <<>>
    /\ inlinks = <<>>
    /\ authority = NoVector
    /\ hub = NoVector
    /\ new_authority = NoVector
    /\ new_hub = NoVector
    /\ pagerank_result = NoResult
    /\ hits_result = NoResult
    /\ response = NoResponse

\* the locals of the thread that is running
Context ==
    [pc |-> pc, endpoint |-> endpoint, request |-> request, M_prime |-> M_prime,
     R |-> R, history |-> history, iterations |-> iterations,
     outlinks |-> outlinks, inlinks |-> inlinks, authority |-> authority,
     hub |-> hub, new_authority |-> new_authority, new_hub |-> new_hub,
     pagerank_result |-> pagerank_result, hits_result |-> hits_result,
     response |-> response]

\* the locals of a worker thread that serves no request
IdleContext ==
    [pc |-> "idle", endpoint |-> "none", request |-> NoRequest, M_prime |-> <<>>,
     R |-> <<>>, history |-> <<>>, iterations |-> 0,
     outlinks |-> <<>>, inlinks |-> <<>>, authority |-> NoVector,
     hub |-> NoVector, new_authority |-> NoVector, new_hub |-> NoVector,
     pagerank_result |-> NoResult, hits_result |-> NoResult,
     response |-> NoResponse]

\* a caller holding any node list and any edge list
InitEngine ==
    /\ \E g \in Graphs :
        /\ nodes = g[1]
        /\ edges = g[2]
    /\ Idle
    /\ parked = IdleContext


\* a caller holding a longer node list
InitWide ==
    /\ \E g \in WideGraphs :
        /\ nodes = g[1]
        /\ edges = g[2]
    /\ Idle
    /\ parked = IdleContext

RECURSIVE SortedLabels(_)
\* sorted(list(nodes_set)): the labels of a set in alphabetical order
SortedLabels(S) ==
    IF S = {} THEN <<>>
    ELSE LET first == CHOOSE l \in S : \A m \in S : LabelPos(l) <= LabelPos(m)
         IN  <<first>> \o SortedLabels(S \ {first})

\* the rows the CSV file is made of, one of them twice
LoadedRows == <<<<"A", "B">>, <<"C", "B">>, <<"A", "B">>>>

\* _nodes, _edges = load_citation_network(): the edges are the rows of the CSV
\* file, the nodes the sorted labels found in them; two worker threads, both
\* serving no request
Init ==
    /\ edges \in SubLists(LoadedRows)
    /\ nodes = SortedLabels({e[1] : e \in Range(edges)} \cup {e[2] : e \in Range(edges)})
    /\ Idle
    /\ parked = IdleContext

\* the handlers are plain functions (main.py ll. 125-126, 166-167, 205-206),
\* which the server runs on worker threads: a request is taken by a thread
\* that serves none, whatever the other thread is doing
CanCall == pc = "idle"

\* a switch of threads that leaves the pass counter where it is, as if the
\* engines counted their passes in one place for both threads
SwitchThreadSharingCounter ==
    /\ parked # Context
    /\ pc' = parked.pc
    /\ endpoint' = parked.endpoint
    /\ request' = parked.request
    /\ M_prime' = parked.M_prime
    /\ R' = parked.R
    /\ history' = parked.history
    /\ iterations' = iterations
    /\ outlinks' = parked.outlinks
    /\ inlinks' = parked.inlinks
    /\ authority' = parked.authority
    /\ hub' = parked.hub
    /\ new_authority' = parked.new_authority
    /\ new_hub' = parked.new_hub
    /\ pagerank_result' = parked.pagerank_result
    /\ hits_result' = parked.hits_result
    /\ response' = parked.response
    /\ parked' = Context
    /\ UNCHANGED <<nodes, edges>>

\* the interpreter passes from the running thread to the other one, whose
\* locals it finds as they were left; the graph is shared by both
SwitchThread ==
    /\ parked # Context
    /\ pc' = parked.pc
    /\ endpoint' = parked.endpoint
    /\ request' = parked.request
    /\ M_prime' = parked.M_prime
    /\ R' = parked.R
    /\ history' = parked.history
    /\ iterations' = parked.iterations
    /\ outlinks' = parked.outlinks
    /\ inlinks' = parked.inlinks
    /\ authority' = parked.authority
    /\ hub' = parked.hub
    /\ new_authority' = parked.new_authority
    /\ new_hub' = parked.new_hub
    /\ pagerank_result' = parked.pagerank_result
    /\ hits_result' = parked.hits_result
    /\ response' = parked.response
    /\ parked' = Context
    /\ UNCHANGED <<nodes, edges>>

\* the call is over: its result went to the caller (the response to the
\* client) and its locals are gone; the graph stays for the next call
Return ==
    /\ pc = "done"
    /\ pc' = "idle"
    /\ endpoint' = "none"
    /\ request' = NoRequest
    /\ M_prime' = <<>>
    /\ R' = <<>>
    /\ history' = <<>>
    /\ iterations' = 0
    /\ outlinks' = <<>>
    /\ inlinks' = <<>>
    /\ authority' = NoVector
    /\ hub' = NoVector
    /\ new_authority' = NoVector
    /\ new_hub' = NoVector
    /\ pagerank_result' = NoResult
    /\ hits_result' = NoResult
    /\ response' = NoResponse
    /\ UNCHANGED <<nodes, edges, parked>>

Handlers == {"run_pagerank", "run_pagerank_with_iterations", "run_hits",
             "run_hits_with_iterations", "compare_algorithms"}

\* PageRank.calculate up to the loop (ll. 82-108), entered for `ep`
StartPageRank(ep, req) ==
    /\ endpoint' = ep
    /\ request' = req
    /\ M_prime' = BuildTransitionMatrix(Len(nodes), EdgeIndices(nodes, edges))
    /\ R' = InitialR(Len(nodes))
    /\ history' = <<>>
    /\ iterations' = 0
    /\ pc' = IF req.max_iterations > 0 THEN "pr_loop" ELSE "pr_exit"
    /\ outlinks' = <<>>
    /\ inlinks' = <<>>
    /\ authority' = NoVector
    /\ hub' = NoVector
    /\ new_authority' = NoVector
    /\ new_hub' = NoVector
    /\ pagerank_result' = NoResult
    /\ hits_result' = NoResult
    /\ response' = NoResponse
    /\ UNCHANGED <<nodes, edges, parked>>

\* a start of HITS.calculate that takes the edges off the list it was given
StartHITSConsumingEdges(ep, req) ==
    /\ endpoint' = ep
    /\ request' = req
    /\ outlinks' = BuildOutlinks(Len(nodes), EdgeIndices(nodes, edges))
    /\ inlinks' = BuildInlinks(Len(nodes), EdgeIndices(nodes, edges))
    /\ authority' = InitialScores(Len(nodes))
    /\ hub' = InitialScores(Len(nodes))
    /\ new_authority' = NoVector
    /\ new_hub' = NoVector
    /\ iterations' = 0
    /\ pc' = IF req.max_iterations > 0 THEN "hits_loop" ELSE "hits_exit"
    /\ M_prime' = <<>>
    /\ R' = <<>>
    /\ history' = <<>>
    /\ hits_result' = NoResult
    /\ response' = NoResponse
    /\ edges' = <<>>
    /\ UNCHANGED <<nodes, parked>>

\* HITS.calculate up to the loop (ll. 45-68), entered for `ep`; the locals of a
\* PageRank call that returned are gone, its result is kept by the caller
StartHITS(ep, req) ==
    /\ endpoint' = ep
    /\ request' = req
    /\ outlinks' = BuildOutlinks(Len(nodes), EdgeIndices(nodes, edges))
    /\ inlinks' = BuildInlinks(Len(nodes), EdgeIndices(nodes, edges))
    /\ authority' = InitialScores(Len(nodes))
    /\ hub' = InitialScores(Len(nodes))
    /\ new_authority' = NoVector
    /\ new_hub' = NoVector
    /\ iterations' = 0
    /\ pc' = IF req.max_iterations > 0 THEN "hits_loop" ELSE "hits_exit"
    /\ M_prime' = <<>>
    /\ R' = <<>>
    /\ history' = <<>>
    /\ hits_result' = NoResult
    /\ response' = NoResponse
    /\ UNCHANGED <<nodes, edges, parked>>

\* a caller runs PageRank(...).calculate(nodes, edges)
CallPageRank ==
    \E req \in Requests :
        /\ CanCall
        /\ StartPageRank("PageRank.calculate", req)

\* a caller runs HITS(...).calculate(nodes, edges)
CallHITS ==
    \E req \in HITSRequests :
        /\ CanCall
        /\ StartHITS("HITS.calculate", req)
        /\ pagerank_result' = NoResult

\* what a handler answers when its try block raises
Failure(error) == [status |-> 500, error |-> error]

\* the first pass of the PageRank loop on an empty node list: epsilon / n
\* raises ZeroDivisionError, which leaves calculate and, in a handler, becomes
\* the HTTPException of its except clause
PageRankRaise ==
    /\ pc = "pr_loop"
    /\ Len(nodes) = 0
    /\ pagerank_result' = PageRankRaised(request)
    /\ response' = IF endpoint \in Handlers THEN Failure("ZeroDivisionError")
                   ELSE response
    /\ pc' = "done"
    /\ UNCHANGED <<nodes, edges, parked, endpoint, request, M_prime, R, history, iterations,
                   outlinks, inlinks, authority, hub, new_authority, new_hub,
                   hits_result>>

\* a pass of a loop that allows one pass more than max_iterations
PageRankIterateOnePassMore ==
    /\ pc = "pr_loop"
    /\ Len(nodes) > 0
    /\ LET s == PageRankIteration(nodes, M_prime, R, history, iterations, request)
       IN  /\ R' = s.R
           /\ history' = s.history
           /\ iterations' = s.iterations
           /\ pc' = IF s.stop \/ s.iterations > request.max_iterations
                    THEN "pr_exit" ELSE "pr_loop"
    /\ UNCHANGED <<nodes, edges, parked, endpoint, request, M_prime, outlinks, inlinks,
                   authority, hub, new_authority, new_hub, pagerank_result,
                   hits_result, response>>

\* one pass of the PageRank loop
PageRankIterate ==
    /\ pc = "pr_loop"
    /\ Len(nodes) > 0
    /\ LET s == PageRankIteration(nodes, M_prime, R, history, iterations, request)
       IN  /\ R' = s.R
           /\ history' = s.history
           /\ iterations' = s.iterations
           /\ pc' = IF s.stop \/ s.iterations >= request.max_iterations
                    THEN "pr_exit" ELSE "pr_loop"
    /\ UNCHANGED <<nodes, edges, parked, endpoint, request, M_prime, outlinks, inlinks,
                   authority, hub, new_authority, new_hub, pagerank_result,
                   hits_result, response>>

\* the other thread holds the result of PageRank.calculate for the
\* configuration of the running call (and for the one graph there is)
SamePageRankCall ==
    /\ parked.pagerank_result.raised = "none"
    /\ parked.request.damping_factor = request.damping_factor
    /\ parked.request.max_iterations = request.max_iterations
    /\ parked.request.convergence_threshold = request.convergence_threshold

\* PageRank.calculate after the loop, up to its return.  The doubles are some
\* rounding of the exact scores; they are the outcome of one arithmetic on one
\* input, so a call whose input the other thread's finished call had returns
\* that call's doubles.
PageRankFinish ==
    /\ pc = "pr_exit"
    /\ \E u \in PageRankRoundings(R, iterations) :
           /\ SamePageRankCall => AsTuple(u) = parked.pagerank_result.rounding
           /\ pagerank_result' =
                  PageRankReturn(nodes, R, history, iterations, request, u)
    /\ pc' = IF endpoint \in Handlers THEN "pr_returned" ELSE "done"
    /\ UNCHANGED <<nodes, edges, parked, endpoint, request, M_prime, R, history, iterations,
                   outlinks, inlinks, authority, hub, new_authority, new_hub,
                   hits_result, response>>

\* one pass of the HITS loop
HITSIterate ==
    /\ pc = "hits_loop"
    /\ LET s == HITSIteration(inlinks, outlinks, authority, hub, iterations, request)
       IN  /\ new_authority' = s.new_authority
           /\ new_hub' = s.new_hub
           /\ authority' = s.authority
           /\ hub' = s.hub
           /\ iterations' = s.iterations
           /\ pc' = IF s.stop \/ s.iterations >= request.max_iterations
                    THEN "hits_exit" ELSE "hits_loop"
    /\ UNCHANGED <<nodes, edges, parked, endpoint, request, M_prime, R, history, outlinks,
                   inlinks, pagerank_result, hits_result, response>>

\* the other thread holds the result of HITS.calculate for the configuration
\* of the running call
SameHITSCall ==
    /\ parked.hits_result.raised = "none"
    /\ parked.request.max_iterations = request.max_iterations
    /\ parked.request.convergence_threshold = request.convergence_threshold

\* HITS.calculate after the loop, up to its return, with the doubles of the
\* two vectors as in PageRankFinish
HITSFinish ==
    /\ pc = "hits_exit"
    /\ \E ua \in HITSRoundings(authority, inlinks, iterations),
          uh \in HITSRoundings(hub, outlinks, iterations) :
           /\ SameHITSCall =>
                  /\ AsTuple(ua) = parked.hits_result.authority_rounding
                  /\ AsTuple(uh) = parked.hits_result.hub_rounding
           /\ hits_result' = HITSReturn(nodes, authority, hub, iterations, ua, uh)
    /\ pc' = IF endpoint \in Handlers THEN "hits_returned" ELSE "done"
    /\ UNCHANGED <<nodes, edges, parked, endpoint, request, M_prime, R, history, iterations,
                   outlinks, inlinks, authority, hub, new_authority, new_hub,
                   pagerank_result, response>>

----------------------------------------------------------------------------
(* Handlers of main.py *)

\* a pop that removes nothing
PopNothing(d, key) == d

\* d.pop(key, None) on a result dict
Pop(d, key) == [k \in DOMAIN d \ {key} |-> d[k]]

\* the value an Optional field with default None takes from the keyword
\* arguments **d
Optional(d, key) == IF key \in DOMAIN d THEN Some(d[key]) ELSE None

\* PageRankResult(**d)
PageRankResult(d) ==
    [node_scores |-> d.node_scores,
     top_nodes |-> d.top_nodes,
     iterations |-> d.iterations,
     convergence_threshold |-> d.convergence_threshold,
     damping_factor |-> d.damping_factor,
     history |-> Optional(d, "history")]

\* HITSResult(**d)
HITSResult(d) ==
    [authority_scores |-> d.authority_scores,
     hub_scores |-> d.hub_scores,
     top_authorities |-> d.top_authorities,
     top_hubs |-> d.top_hubs,
     iterations |-> d.iterations,
     history |-> Optional(d, "history")]

\* [list(item.keys())[0] for item in top]
TopNames(top) == [p \in DOMAIN top |-> top[p][1]]

Success(body) == [status |-> 200, body |-> body]

\* POST /api/algorithms/pagerank
RunPagerank ==
    \E req \in BodyRequests :
        /\ CanCall
        /\ StartPageRank("run_pagerank", req)

\* run_pagerank after calculate returned: the history is removed from the
\* dict calculate returned itself (l. 142), which then makes the response
RunPagerankRespond ==
    /\ pc = "pr_returned"
    /\ endpoint = "run_pagerank"
    /\ pagerank_result' = Pop(pagerank_result, "history")
    /\ response' = Success(PageRankResult(pagerank_result'))
    /\ pc' = "done"
    /\ UNCHANGED <<nodes, edges, parked, endpoint, request, M_prime, R, history, iterations,
                   outlinks, inlinks, authority, hub, new_authority, new_hub,
                   hits_result>>

\* POST /api/algorithms/pagerank/iterations
RunPagerankWithIterations ==
    \E req \in BodyRequests :
        /\ CanCall
        /\ StartPageRank("run_pagerank_with_iterations", req)

\* run_pagerank_with_iterations after calculate returned
RunPagerankWithIterationsRespond ==
    /\ pc = "pr_returned"
    /\ endpoint = "run_pagerank_with_iterations"
    /\ response' = Success(PageRankResult(pagerank_result))
    /\ pc' = "done"
    /\ UNCHANGED <<nodes, edges, parked, endpoint, request, M_prime, R, history, iterations,
                   outlinks, inlinks, authority, hub, new_authority, new_hub,
                   pagerank_result, hits_result>>

\* POST /api/algorithms/hits
RunHits ==
    \E req \in BodyRequests :
        /\ CanCall
        /\ StartHITS("run_hits", req)
        /\ pagerank_result' = NoResult

\* run_hits after calculate returned
RunHitsRespond ==
    /\ pc = "hits_returned"
    /\ endpoint = "run_hits"
    /\ response' = Success(HITSResult(Pop(hits_result, "history")))
    /\ pc' = "done"
    /\ UNCHANGED <<nodes, edges, parked, endpoint, request, M_prime, R, history, iterations,
                   outlinks, inlinks, authority, hub, new_authority, new_hub,
                   pagerank_result, hits_result>>

\* POST /api/algorithms/hits/iterations
RunHitsWithIterations ==
    \E req \in BodyRequests :
        /\ CanCall
        /\ StartHITS("run_hits_with_iterations", req)
        /\ pagerank_result' = NoResult

\* run_hits_with_iterations after calculate returned
RunHitsWithIterationsRespond ==
    /\ pc = "hits_returned"
    /\ endpoint = "run_hits_with_iterations"
    /\ response' = Success(HITSResult(hits_result))
    /\ pc' = "done"
    /\ UNCHANGED <<nodes, edges, parked, endpoint, request, M_prime, R, history, iterations,
                   outlinks, inlinks, authority, hub, new_authority, new_hub,
                   pagerank_result, hits_result>>

\* POST /api/algorithms/compare, up to the PageRank loop
CompareAlgorithms ==
    \E req \in BodyRequests :
        /\ CanCall
        /\ StartPageRank("compare_algorithms", req)

\* compare_algorithms between the two engines (ll. 220-229)
CompareRunHITS ==
    /\ pc = "pr_returned"
    /\ endpoint = "compare_algorithms"
    /\ StartHITS("compare_algorithms", request)
    /\ UNCHANGED pagerank_result

\* compare_algorithms reads the first entry of top_nodes (l. 245) with no
\* check that there is one: IndexError, answered by the except clause
CompareIndexError ==
    /\ pc = "hits_returned"
    /\ endpoint = "compare_algorithms"
    /\ pagerank_result.top_nodes = <<>>
    /\ response' = Failure("IndexError")
    /\ pc' = "done"
    /\ UNCHANGED <<nodes, edges, parked, endpoint, request, M_prime, R, history, iterations,
                   outlinks, inlinks, authority, hub, new_authority, new_hub,
                   pagerank_result, hits_result>>

\* compare_algorithms after both engines returned (ll. 231-327); the insight
\* strings, built from the values below and the node degrees, are left out
CompareRespond ==
    /\ pc = "hits_returned"
    /\ endpoint = "compare_algorithms"
    /\ pagerank_result.top_nodes # <<>>
    /\ LET pr == Pop(pagerank_result, "history")
           hr == Pop(hits_result, "history")
           top_pagerank_nodes == Range(TopNames(pr.top_nodes))
           top_authority_nodes == Range(TopNames(hr.top_authorities))
           top_hub_nodes == Range(TopNames(hr.top_hubs))
       IN  response' = Success(
               [pagerank |-> PageRankResult(pr),
                hits |-> HITSResult(hr),
                overlap_authorities |-> top_pagerank_nodes \cap top_authority_nodes,
                overlap_hubs |-> top_pagerank_nodes \cap top_hub_nodes,
                top_pr_node |-> pr.top_nodes[1][1],
                top_auth_node |-> hr.top_authorities[1][1],
                top_hub_node |-> hr.top_hubs[1][1]])
    /\ pc' = "done"
    /\ UNCHANGED <<nodes, edges, parked, endpoint, request, M_prime, R, history, iterations,
                   outlinks, inlinks, authority, hub, new_authority, new_hub,
                   pagerank_result, hits_result>>

----------------------------------------------------------------------------
(* Handlers that read the graph without running an engine *)

\* build_graph: the nodes of the DiGraph are the node list and every endpoint
\* of an edge; an edge given twice is one edge of the DiGraph
GraphNodes(ns, es) ==
    Range(ns) \cup {e[1] : e \in Range(es)} \cup {e[2] : e \in Range(es)}

\* get_network_statistics(nodes, edges)
GetNetworkStatistics(ns, es) ==
    LET num_nodes == Cardinality(GraphNodes(ns, es))
        num_edges == Cardinality(Range(es))
    IN  [num_nodes |-> num_nodes,
         num_edges |-> num_edges,
         density |-> IF num_nodes > 1
                     THEN Rat(num_edges, num_nodes * (num_nodes - 1)) ELSE Zero,
         avg_degree |-> IF num_nodes > 0 THEN Rat(2 * num_edges, num_nodes) ELSE Zero]

\* get_node_degrees(nodes, edges): a self-loop counts in both degrees
GetNodeDegrees(ns, es) ==
    [l \in Range(ns) |->
        LET in_degree == Cardinality({e \in Range(es) : e[2] = l})
            out_degree == Cardinality({e \in Range(es) : e[1] = l})
        IN  [in_degree |-> in_degree,
             out_degree |-> out_degree,
             total_degree |-> in_degree + out_degree]]

\* an answer that runs no engine: the locals of the engines stay unset
Answer(ep, body) ==
    /\ CanCall
    /\ endpoint' = ep
    /\ response' = Success(body)
    /\ pc' = "done"
    /\ UNCHANGED <<nodes, edges, parked, request, M_prime, R, history, iterations, outlinks,
                   inlinks, authority, hub, new_authority, new_hub,
                   pagerank_result, hits_result>>

\* GET /api/network-info
GetNetworkSummary ==
    Answer("get_network_summary",
           [num_nodes |-> Len(nodes), num_edges |-> Len(edges)])

\* GET /api/network
GetNetworkInfo ==
    Answer("get_network_info", GetNetworkStatistics(nodes, edges))

\* GET /api/node-degrees
GetDegrees ==
    Answer("get_degrees", [node_degrees |-> GetNodeDegrees(nodes, edges)])

----------------------------------------------------------------------------
(* Specifications *)

\* the engines, called directly on any graph by one thread: an engine object
\* is made for the call and calculate keeps everything in its locals, so what
\* other threads do shows in no step of it; the threads of the service are in
\* Next
NextEngine ==
    \/ CallPageRank
    \/ CallHITS
    \/ PageRankRaise
    \/ PageRankIterate
    \/ PageRankFinish
    \/ HITSIterate
    \/ HITSFinish
    \/ Return

SpecEngine == InitEngine /\ [][NextEngine]_vars

\* a step of a call that has started
EngineStep ==
    \/ PageRankRaise
    \/ PageRankIterate
    \/ PageRankFinish
    \/ HITSIterate
    \/ HITSFinish

\* a call of an engine is in or at the end of its loop: the states in which
\* EngineStep is enabled
CallRunning == pc \in {"pr_loop", "pr_exit", "hits_loop", "hits_exit"}

\* a step of a running call as it shows on pc and iterations: every step of
\* EngineStep changes one of the two, and a running call enables no other
\* action.  Stated on these two variables so that TLC can decide whether it is
\* enabled without evaluating a whole pass.
EngineAdvance ==
    /\ CallRunning
    /\ \E next_pc \in {"pr_loop", "pr_exit", "hits_loop", "hits_exit",
                       "pr_returned", "hits_returned", "done"} :
       \E passes \in {iterations, iterations + 1} :
          /\ pc' = next_pc
          /\ iterations' = passes
          /\ <<next_pc, passes>> # <<pc, iterations>>

\* a call that has started runs on: the code of calculate is sequential and
\* each of its steps ends, so a running call takes its next step
EngineFairness == WF_<<pc, iterations>>(EngineAdvance)

\* the engines, called directly on any graph, each call running to its end
SpecEngineFair == SpecEngine /\ EngineFairness

\* the engines, called directly on a longer graph
SpecWide == InitWide /\ [][NextEngine]_vars

\* the service: the handlers on the graph loaded at start
Next ==
    \/ RunPagerank
    \/ RunPagerankWithIterations
    \/ RunHits
    \/ RunHitsWithIterations
    \/ CompareAlgorithms
    \/ PageRankRaise
    \/ PageRankIterate
    \/ PageRankFinish
    \/ RunPagerankRespond
    \/ RunPagerankWithIterationsRespond
    \/ CompareRunHITS
    \/ HITSIterate
    \/ HITSFinish
    \/ RunHitsRespond
    \/ RunHitsWithIterationsRespond
    \/ CompareIndexError
    \/ CompareRespond
    \/ GetNetworkSummary
    \/ GetNetworkInfo
    \/ GetDegrees
    \/ SwitchThread
    \/ Return

Spec == Init /\ [][Next]_vars

----------------------------------------------------------------------------
(* Properties: vocabulary *)

\* a direct call of PageRank.calculate has returned or raised
PageRankCallOver == pc = "done" /\ endpoint = "PageRank.calculate"

\* a direct call of HITS.calculate has returned
HITSCallOver == pc = "done" /\ endpoint = "HITS.calculate"

\* the edges of the list whose two endpoints are nodes
InducedEdges(ns, es) ==
    SelectSeq(es, LAMBDA e : e[1] \in Range(ns) /\ e[2] \in Range(ns))

\* how many times the edge from the j-th to the i-th node is in the edge list
EdgeCount(j, i) ==
    Cardinality({k \in DOMAIN edges : edges[k] = <<nodes[j], nodes[i]>>})

\* the out-degree of the j-th node, every occurrence of an edge counted
OutDegreeCounted(j) == ISum([i \in 1..Len(nodes) |-> EdgeCount(j, i)])

\* the number of distinct nodes the j-th node has an edge to
OutDegreeDistinct(j) == Cardinality({i \in 1..Len(nodes) : EdgeCount(j, i) > 0})

\* the j-th node has no edge to a node
Dangling(j) == OutDegreeDistinct(j) = 0

\* no edge of the list names the label l
Isolated(l) == \A k \in DOMAIN edges : edges[k][1] # l /\ edges[k][2] # l

\* the teleportation floor (1 - d) / n
Floor == RDiv(RSub(One, request.damping_factor), <<Len(nodes), 1>>)

\* the vector the last pass of the PageRank loop started from
PreviousR ==
    IF iterations = 1 THEN InitialR(Len(nodes))
    ELSE [i \in 1..Len(nodes) |-> history[iterations - 1].scores[nodes[i]]]

\* the PageRank loop ended on its convergence test
Converged ==
    /\ iterations >= 1
    /\ RLess(L1Diff(R, PreviousR), request.convergence_threshold)

----------------------------------------------------------------------------
(* C1 *)

\* C1 (as stated): on an empty node list, with any edge list, each of
\* PageRank.calculate and HITS.calculate returns without raising, with empty
\* score mappings, empty top-5 lists and an iteration count of 0.
C1_EmptyGraphEmptyResult ==
    /\ (PageRankCallOver /\ nodes = <<>>) =>
           /\ pagerank_result.raised = "none"
           /\ pagerank_result.node_scores = <<>>
           /\ pagerank_result.top_nodes = <<>>
           /\ pagerank_result.iterations = 0
    /\ (HITSCallOver /\ nodes = <<>>) =>
           /\ hits_result.raised = "none"
           /\ hits_result.authority_scores = <<>>
           /\ hits_result.hub_scores = <<>>
           /\ hits_result.top_authorities = <<>>
           /\ hits_result.top_hubs = <<>>
           /\ hits_result.iterations = 0

\* the failing call: PageRank.calculate on an empty node list, asked for at
\* least one iteration, is left by ZeroDivisionError
C1_EmptyGraphRaises ==
    /\ PageRankCallOver
    /\ nodes = <<>>
    /\ request.max_iterations >= 1
    /\ pagerank_result.raised = "ZeroDivisionError"

----------------------------------------------------------------------------
(* C2 *)

\* C2: in PageRank.calculate on n >= 1 nodes, the raw vector R left by every
\* pass of the loop sums to 1, dangling nodes or not, for every damping factor.
C2_UpdateKeepsMass ==
    (R # <<>> /\ iterations >= 1) => RSum(R) = One

\* two passes done on a graph with an edge and a dangling node, the scores no
\* longer uniform
C2_DanglingMassRedistributed ==
    /\ endpoint = "PageRank.calculate"
    /\ iterations = MaxIter
    /\ EdgeIndices(nodes, edges) # <<>>
    /\ \E j \in 1..Len(nodes) : Dangling(j)
    /\ R # InitialR(Len(nodes))

----------------------------------------------------------------------------
(* C3 *)

\* the first pass of the HITS loop sums, for each node, one term per occurrence
\* of an edge, and the adjacency lists hold one entry per occurrence
HITSCountsEveryOccurrence ==
    (endpoint = "HITS.calculate" /\ pc \in {"hits_loop", "hits_exit", "done"}) =>
        /\ \A i, j \in 1..Len(nodes) :
               /\ Cardinality({k \in DOMAIN inlinks[i] : inlinks[i][k] = j})
                      = EdgeCount(j, i)
               /\ Cardinality({k \in DOMAIN outlinks[j] : outlinks[j][k] = i})
                      = EdgeCount(j, i)
        /\ iterations = 1 =>
               \A i \in 1..Len(nodes) :
                   /\ new_authority.num[i]
                          = ISum([j \in 1..Len(nodes) |-> EdgeCount(j, i)])
                   /\ new_hub.num[i] = OutDegreeCounted(i)

\* C3 (as stated): an edge that is k times in the input counts k times in the
\* out-degree of its source and gives its target k shares of the source's mass
\* in the PageRank update, and counts k times in the HITS sums.
C3_ParallelEdgesCountedByBoth ==
    /\ (endpoint = "PageRank.calculate" /\ pc \in {"pr_loop", "pr_exit", "done"}) =>
           \A i, j \in 1..Len(nodes) :
               M_prime[i][j] = IF OutDegreeCounted(j) = 0 THEN Rat(1, Len(nodes))
                               ELSE Rat(EdgeCount(j, i), OutDegreeCounted(j))
    /\ HITSCountsEveryOccurrence

\* C3 (amended): HITS counts an edge once per occurrence; PageRank counts an
\* edge once however often it occurs: the out-degree of a source is the number
\* of its distinct targets and each of them gets one share of its mass.
C3_ParallelEdgesCountedByHITSOnly ==
    /\ (endpoint = "PageRank.calculate" /\ pc \in {"pr_loop", "pr_exit", "done"}) =>
           \A i, j \in 1..Len(nodes) :
               M_prime[i][j] = IF Dangling(j) THEN Rat(1, Len(nodes))
                               ELSE IF EdgeCount(j, i) > 0
                                    THEN Rat(1, OutDegreeDistinct(j))
                                    ELSE Zero
    /\ HITSCountsEveryOccurrence

\* PageRank has run on a graph where a node has the same edge twice and an edge
\* to another node
C3_RepeatedEdgeBesideAnother ==
    /\ PageRankCallOver
    /\ pagerank_result.raised = "none"
    /\ iterations >= 1
    /\ \E i, j \in 1..Len(nodes) :
           /\ EdgeCount(j, i) >= 2
           /\ OutDegreeDistinct(j) >= 2

----------------------------------------------------------------------------
(* C4 *)

\* the score held before the last pass by the nodes that have no edge to a node
DanglingMassBefore ==
    RSum([j \in 1..Len(nodes) |-> IF Dangling(j) THEN PreviousR[j] ELSE Zero])

\* C4 (as stated): at convergence a node that no edge names has the PageRank
\* score (1 - d) / n.
C4_IsolatedNodeAtFloor ==
    (PageRankCallOver /\ pagerank_result.raised = "none" /\ Converged) =>
        \A l \in Range(nodes) :
            Isolated(l) => pagerank_result.node_scores[l] = Floor

\* C4 (amended): a node that no edge names is itself dangling, so its returned
\* score is (1 - d) / n plus its share d * D / n of the score D the dangling
\* nodes held before the last pass: strictly more than (1 - d) / n.
C4_IsolatedNodeAboveFloor ==
    (PageRankCallOver /\ pagerank_result.raised = "none" /\ iterations >= 1) =>
        \A l \in Range(nodes) :
            Isolated(l) =>
                /\ pagerank_result.node_scores[l]
                       = RAdd(Floor, RDiv(RMul(request.damping_factor,
                                               DanglingMassBefore),
                                          <<Len(nodes), 1>>))
                /\ RLess(Floor, pagerank_result.node_scores[l])

\* PageRank converged on a graph with an edge and a node that no edge names
C4_IsolatedNodeConverged ==
    /\ PageRankCallOver
    /\ pagerank_result.raised = "none"
    /\ Converged
    /\ EdgeIndices(nodes, edges) # <<>>
    /\ \E l \in Range(nodes) : Isolated(l)

----------------------------------------------------------------------------
(* C5 *)

\* C5: an edge with an endpoint that is not a node changes nothing: each engine
\* ends as it ends on the same node list with those edges removed, and with
\* a result exactly when it has one there.
C5_UnknownEndpointsIgnored ==
    /\ PageRankCallOver =>
           pagerank_result
               = PageRankCalculate(nodes, InducedEdges(nodes, edges), request,
                                   pagerank_result.rounding)
    /\ HITSCallOver =>
           hits_result = HITSCalculate(nodes, InducedEdges(nodes, edges), request,
                                       hits_result.authority_rounding,
                                       hits_result.hub_rounding)

\* PageRank returned scores for a graph with an edge between nodes and an edge
\* from a node to a label that is not a node
C5_EdgeToUnknownLabel ==
    /\ PageRankCallOver
    /\ pagerank_result.raised = "none"
    /\ iterations >= 1
    /\ InducedEdges(nodes, edges) # <<>>
    /\ \E k \in DOMAIN edges :
           edges[k][1] \in Range(nodes) /\ edges[k][2] \notin Range(nodes)

----------------------------------------------------------------------------
(* C6 *)

\* C6: on n >= 1 nodes, for every configuration, the scores PageRank.calculate
\* returns (node_scores, after the one rescale that follows the loop) sum to 1.
C6_FinalScoresSumToOne ==
    (PageRankCallOver /\ pagerank_result.raised = "none" /\ Len(nodes) >= 1) =>
        RSum([i \in 1..Len(nodes) |-> pagerank_result.node_scores[nodes[i]]]) = One

\* PageRank returned after two passes on two or more nodes with an edge, with
\* scores that are not all equal
C6_ReturnedAfterLoop ==
    /\ PageRankCallOver
    /\ pagerank_result.raised = "none"
    /\ Len(nodes) >= 2
    /\ iterations = MaxIter
    /\ EdgeIndices(nodes, edges) # <<>>
    /\ \E l, m \in Range(nodes) :
           pagerank_result.node_scores[l] # pagerank_result.node_scores[m]

----------------------------------------------------------------------------
(* C7 *)

\* C7 (as stated): on a graph without nodes compare_algorithms does not fail on
\* the first entry of an empty top list.
C7_CompareGuardsEmptyTopList ==
    (endpoint = "compare_algorithms" /\ pc = "done" /\ Len(nodes) < 1) =>
        response # Failure("IndexError")

\* the failing request: both engines returned for an empty graph (no iteration
\* was asked for) and the handler answered 500 for the IndexError
C7_CompareIndexErrorOnEmptyGraph ==
    /\ endpoint = "compare_algorithms"
    /\ pc = "done"
    /\ nodes = <<>>
    /\ pagerank_result.raised = "none"
    /\ hits_result.raised = "none"
    /\ response = Failure("IndexError")

----------------------------------------------------------------------------
(* C8 *)

\* C8 (as stated): the answer of run_hits_with_iterations has a history with
\* one entry per iteration performed, in iteration order.
C8_HITSHistoryDelivered ==
    (endpoint = "run_hits_with_iterations" /\ pc = "done" /\ response.status = 200) =>
        /\ response.body.history.present
        /\ Len(response.body.history.value) = response.body.iterations
        /\ \A k \in DOMAIN response.body.history.value :
               response.body.history.value[k].iteration = k

\* the failing request: run_hits_with_iterations answered after at least one
\* iteration and its history is None
C8_HITSHistoryMissing ==
    /\ endpoint = "run_hits_with_iterations"
    /\ pc = "done"
    /\ response.status = 200
    /\ response.body.iterations >= 1
    /\ response.body.history = None

----------------------------------------------------------------------------
(* C9 *)

RECURSIVE UpdateTimes(_)
\* the raw vector after k passes of the PageRank loop
UpdateTimes(k) ==
    IF k = 0 THEN InitialR(Len(nodes))
    ELSE PageRankUpdate(M_prime, UpdateTimes(k - 1), request.damping_factor,
                        Len(nodes))

\* C9: run_pagerank answers without history; run_pagerank_with_iterations
\* answers with a history as long as the iteration count it reports, its
\* entries numbered 1, 2, ... in order, the k-th holding the raw vector of the
\* k-th update.
C9_PageRankHistoryOnRequest ==
    /\ (endpoint = "run_pagerank" /\ pc = "done" /\ response.status = 200) =>
           response.body.history = None
    /\ (endpoint = "run_pagerank_with_iterations" /\ pc = "done"
            /\ response.status = 200) =>
           /\ response.body.history.present
           /\ Len(response.body.history.value) = response.body.iterations
           /\ \A k \in DOMAIN response.body.history.value :
                  /\ response.body.history.value[k].iteration = k
                  /\ response.body.history.value[k].scores
                         = NodeScores(nodes, UpdateTimes(k))

\* run_pagerank_with_iterations answered with two iterations whose vectors
\* differ
C9_TwoIterationsDelivered ==
    /\ endpoint = "run_pagerank_with_iterations"
    /\ pc = "done"
    /\ response.status = 200
    /\ response.body.iterations = 2
    /\ response.body.history.present
    /\ Len(response.body.history.value) = 2
    /\ response.body.history.value[1].scores # response.body.history.value[2].scores

----------------------------------------------------------------------------
(* C10 *)

AllZero(p) == \A i \in DOMAIN p : p[i] = 0

\* the vector p / sqrt(q) is all-zero if its sum of the previous pass is, and
\* has Euclidean norm 1 if not: sum of (p_i / sqrt(q))^2 = SumSq(p) / q = 1
ZeroOrUnit(v, raw) ==
    IF AllZero(raw.num) THEN AllZero(v.num) ELSE SumSq(v.num) = v.rad

\* C10: after every pass of the HITS loop each of authority and hub is all-zero,
\* exactly when its vector before normalization is all-zero, or has Euclidean
\* norm 1.
C10_ZeroOrUnitNorm ==
    (endpoint = "HITS.calculate" /\ iterations >= 1) =>
        /\ ZeroOrUnit(authority, new_authority)
        /\ ZeroOrUnit(hub, new_hub)
        /\ AllZero(authority.num) <=> AllZero(new_authority.num)
        /\ AllZero(hub.num) <=> AllZero(new_hub.num)

\* two passes done; the authority vector has two entries that are not zero and
\* one that is
C10_NormalizedAuthority ==
    /\ endpoint = "HITS.calculate"
    /\ iterations = MaxIter
    /\ Cardinality({i \in DOMAIN authority.num : authority.num[i] > 0}) >= 2
    /\ \E i \in DOMAIN authority.num : authority.num[i] = 0
    /\ ~AllZero(hub.num)

----------------------------------------------------------------------------
(* C11 *)

\* the position of the label l in the node list
Position(l) == CHOOSE i \in DOMAIN nodes : nodes[i] = l

\* HITS scores p / sqrt(q), p >= 0, as numbers in the same order: their squares
SquaredScores(scores) ==
    [l \in DOMAIN scores |-> Rat(scores[l][1] * scores[l][1], scores[l][2])]

\* l comes before m in a stable sort of the doubles, descending: the greater
\* exact score first; of two equal exact scores the one of greater rank, which
\* is the greater double; of two equal doubles the one first in the node list
Ahead(key, rank, l, m) ==
    \/ RLess(key[m], key[l])
    \/ /\ key[l] = key[m]
       /\ rank[Position(l)] > rank[Position(m)]
    \/ /\ key[l] = key[m]
       /\ rank[Position(l)] = rank[Position(m)]
       /\ Position(l) < Position(m)

\* top is the first min(5, n) entries of the nodes sorted by score descending,
\* equal scores in node-list order, each with its score of the mapping
IsTopList(top, scores, key, rank) ==
    /\ Len(top) = Min(TopK, Len(nodes))
    /\ \A p \in DOMAIN top :
           /\ top[p][1] \in Range(nodes)
           /\ top[p][2] = scores[top[p][1]]
    /\ \A p, q \in DOMAIN top : p < q => Ahead(key, rank, top[p][1], top[q][1])
    /\ \A l \in Range(nodes) \ {top[p][1] : p \in DOMAIN top} :
           \A p \in DOMAIN top : Ahead(key, rank, top[p][1], l)

\* C11: each of top_nodes, top_authorities and top_hubs has min(5, n) entries,
\* ordered by score descending with equal scores in node-list order, each
\* entry's score being that node's score in the score mapping.  The scores
\* are the doubles returned: two are equal when they have the same exact
\* value and the same rank.
C11_TopListsStableDescending ==
    /\ (PageRankCallOver /\ pagerank_result.raised = "none") =>
           IsTopList(pagerank_result.top_nodes, pagerank_result.node_scores,
                     pagerank_result.node_scores, pagerank_result.rounding)
    /\ HITSCallOver =>
           /\ IsTopList(hits_result.top_authorities, hits_result.authority_scores,
                        SquaredScores(hits_result.authority_scores),
                        hits_result.authority_rounding)
           /\ IsTopList(hits_result.top_hubs, hits_result.hub_scores,
                        SquaredScores(hits_result.hub_scores),
                        hits_result.hub_rounding)

\* PageRank returned for six nodes: five are listed, with scores that are not
\* all equal; the node left out has the double of the last one listed, and
\* two nodes of one exact score are listed greater double first, against
\* their order in the node list
C11_TieAcrossTheCut ==
    /\ PageRankCallOver
    /\ pagerank_result.raised = "none"
    /\ Len(nodes) = TopK + 1
    /\ iterations >= 1
    /\ Len(pagerank_result.top_nodes) = TopK
    /\ pagerank_result.top_nodes[1][2] # pagerank_result.top_nodes[TopK][2]
    /\ \E l \in Range(nodes) :
           /\ \A p \in 1..TopK : pagerank_result.top_nodes[p][1] # l
           /\ pagerank_result.node_scores[l] = pagerank_result.top_nodes[TopK][2]
           /\ pagerank_result.rounding[Position(l)]
                  = pagerank_result.rounding[Position(pagerank_result.top_nodes[TopK][1])]
    /\ \E p, q \in 1..TopK :
           /\ p < q
           /\ pagerank_result.top_nodes[p][2] = pagerank_result.top_nodes[q][2]
           /\ Position(pagerank_result.top_nodes[p][1])
                  > Position(pagerank_result.top_nodes[q][1])

----------------------------------------------------------------------------
(* C12 *)

\* the request with another convergence threshold
WithThreshold(req, t) == [req EXCEPT !.convergence_threshold = t]

\* C12: graph, damping factor and iteration cap being the same, an engine run
\* with a smaller convergence threshold reports at least as many iterations.
C12_SmallerThresholdMoreIterations ==
    /\ (PageRankCallOver /\ pagerank_result.raised = "none") =>
           \A t \in Thresholds :
               RLess(t, request.convergence_threshold) =>
                   PageRankCalculate(nodes, edges, WithThreshold(request, t),
                                     NoRounding(Len(nodes))).iterations
                       >= pagerank_result.iterations
    /\ HITSCallOver =>
           \A t \in Thresholds :
               RLess(t, request.convergence_threshold) =>
                   HITSCalculate(nodes, edges, WithThreshold(request, t),
                                 NoRounding(Len(nodes)),
                                 NoRounding(Len(nodes))).iterations
                       >= hits_result.iterations

\* PageRank stopped after one pass of the two allowed, and goes on to a second
\* pass with a smaller threshold
C12_SmallerThresholdGoesOn ==
    /\ PageRankCallOver
    /\ pagerank_result.raised = "none"
    /\ request.max_iterations = MaxIter
    /\ pagerank_result.iterations = 1
    /\ \E t \in Thresholds :
           /\ RLess(t, request.convergence_threshold)
           /\ PageRankCalculate(nodes, edges, WithThreshold(request, t),
                                     NoRounding(Len(nodes))).iterations > 1

----------------------------------------------------------------------------
(* C13 *)

\* C13: every entry of the raw PageRank vector is non-negative, at
\* initialization and after every pass, for every graph and damping factor.
C13_RawVectorNonNegative ==
    \A i \in DOMAIN R : ~RLess(R[i], Zero)

\* two passes done on a graph where every node has an edge to a node and one
\* node has none coming in: the teleportation term is all that node gets
C13_OnlyTeleportation ==
    /\ endpoint = "PageRank.calculate"
    /\ iterations = MaxIter
    /\ \A j \in 1..Len(nodes) : ~Dangling(j)
    /\ \E i \in 1..Len(nodes) :
           /\ \A j \in 1..Len(nodes) : EdgeCount(j, i) = 0
           /\ R[i] = Floor

----------------------------------------------------------------------------
(* C14 *)

\* a result dict of PageRank.calculate, or the exception it raised
PageRankCalled(result) == result.raised # "not called"

\* the two threads asked PageRank.calculate for the same configuration
SamePageRankConfiguration ==
    /\ parked.request.damping_factor = request.damping_factor
    /\ parked.request.max_iterations = request.max_iterations
    /\ parked.request.convergence_threshold = request.convergence_threshold

\* the two threads asked HITS.calculate for the same configuration
SameHITSConfiguration ==
    /\ parked.request.max_iterations = request.max_iterations
    /\ parked.request.convergence_threshold = request.convergence_threshold

----------------------------------------------------------------------------
(* C15 *)

\* the k-th pass of the PageRank loop passes the convergence test: the L1
\* distance between the raw vectors after k and after k - 1 updates is below
\* the threshold
PassConverges(k) ==
    RLess(L1Diff(UpdateTimes(k), UpdateTimes(k - 1)), request.convergence_threshold)

\* C15: a PageRank.calculate that returns has stopped at the first pass whose
\* raw L1 distance is below the threshold, or at max_iterations if there is
\* none before; it reports the number of updates it made, and the vector it
\* tested is the raw one, rescaled only afterwards.
C15_StopsAtFirstConvergedPass ==
    (PageRankCallOver /\ pagerank_result.raised = "none") =>
        /\ pagerank_result.iterations = Len(pagerank_result.history)
        /\ pagerank_result.iterations <= request.max_iterations
        /\ R = UpdateTimes(pagerank_result.iterations)
        /\ pagerank_result.node_scores = NodeScores(nodes, Rescale(R))
        /\ \A k \in 1..(pagerank_result.iterations - 1) : ~PassConverges(k)
        /\ pagerank_result.iterations < request.max_iterations =>
               PassConverges(pagerank_result.iterations)

\* PageRank returned after the first of two allowed passes, which moved the
\* vector by less than the threshold
C15_StoppedBeforeTheCap ==
    /\ PageRankCallOver
    /\ pagerank_result.raised = "none"
    /\ request.max_iterations = MaxIter
    /\ pagerank_result.iterations = 1
    /\ R # InitialR(Len(nodes))
    /\ PassConverges(1)

----------------------------------------------------------------------------
(* C16 *)

RECURSIVE HITSAfter(_)
\* the authority and hub vectors after k passes of the HITS loop
HITSAfter(k) ==
    IF k = 0
    THEN [authority |-> InitialScores(Len(nodes)), hub |-> InitialScores(Len(nodes))]
    ELSE LET prev == HITSAfter(k - 1)
         IN  [authority |-> Normalize(Accumulate(inlinks, prev.hub)),
              hub |-> Normalize(Accumulate(outlinks, prev.authority))]

\* the authority L1 distance of pass k is below the threshold
AuthorityClose(k) ==
    L1DiffLess(HITSAfter(k).authority, HITSAfter(k - 1).authority,
               request.convergence_threshold)

\* the hub L1 distance of pass k is below the threshold
HubClose(k) ==
    L1DiffLess(HITSAfter(k).hub, HITSAfter(k - 1).hub, request.convergence_threshold)

\* C16: a HITS.calculate that stopped before the iteration cap stopped on a pass
\* where both the authority and the hub distance are below the threshold, and
\* on no earlier pass were both below it: a pass where one only is below it
\* does not end the loop.
C16_StopsWhenBothConverged ==
    HITSCallOver =>
        /\ hits_result.iterations <= request.max_iterations
        /\ authority = HITSAfter(hits_result.iterations).authority
        /\ hub = HITSAfter(hits_result.iterations).hub
        /\ \A k \in 1..(hits_result.iterations - 1) :
               ~(AuthorityClose(k) /\ HubClose(k))
        /\ hits_result.iterations < request.max_iterations =>
               /\ AuthorityClose(hits_result.iterations)
               /\ HubClose(hits_result.iterations)

\* HITS made a third pass after a second pass on which one of the two
\* distances only was below the threshold
C16_OneDistanceIsNotEnough ==
    /\ HITSCallOver
    /\ hits_result.iterations = 3
    /\ AuthorityClose(2) # HubClose(2)

----------------------------------------------------------------------------
(* C17 *)

\* C17: every pass of the HITS loop sums the new authority vector from the hub
\* vector of the pass before and the new hub vector from the authority vector
\* of the pass before, and only then replaces the two: the vectors it leaves
\* are those sums, normalized.
C17_SynchronousUpdate ==
    [][HITSIterate =>
          /\ new_authority' = Accumulate(inlinks, hub)
          /\ new_hub' = Accumulate(outlinks, authority)
          /\ authority' = Normalize(new_authority')
          /\ hub' = Normalize(new_hub')]_vars

\* a second pass is done, and the hub sums it made differ from those the
\* authority vector of the same pass would have given
C17_InPlaceWouldDiffer ==
    /\ endpoint = "HITS.calculate"
    /\ iterations = 2
    /\ new_hub = Accumulate(outlinks, HITSAfter(1).authority)
    /\ new_hub # Accumulate(outlinks, authority)

----------------------------------------------------------------------------
(* C18 *)

\* no edge between two nodes is twice in the edge list
NoRepeatedEdges == \A i, j \in 1..Len(nodes) : EdgeCount(j, i) <= 1

\* (1-d)/n + d * (sum over in-neighbours j of old[j] / outdegree(j))
\*         + d * (sum over out-degree-0 nodes j of old[j] / n)
ScoreFrom(old, i) ==
    LET n == Len(nodes)
        d == request.damping_factor
        linked == RSum([j \in 1..n |->
                      IF EdgeCount(j, i) > 0
                      THEN RDiv(old[j], <<OutDegreeCounted(j), 1>>) ELSE Zero])
        dangling == RSum([j \in 1..n |->
                        IF OutDegreeCounted(j) = 0
                        THEN RDiv(old[j], <<n, 1>>) ELSE Zero])
    IN  RAdd(RDiv(RSub(One, d), <<n, 1>>),
             RAdd(RMul(d, linked), RMul(d, dangling)))

\* C18: on a graph without repeated edges every pass of the PageRank loop gives
\* each node (1-d)/n + d * (sum over in-neighbours j of old[j]/outdegree(j))
\* + d * (sum over out-degree-0 nodes j of old[j]/n), old being the vector of
\* the pass before; the transition matrix made before the loop is not changed
\* by a pass.
C18_UpdateFromFrozenVector ==
    [][PageRankIterate =>
          /\ M_prime' = M_prime
          /\ M_prime = BuildTransitionMatrix(Len(nodes), EdgeIndices(nodes, edges))
          /\ NoRepeatedEdges =>
                 \A i \in 1..Len(nodes) : R'[i] = ScoreFrom(R, i)]_vars

\* two passes done on a graph without repeated edges that has a self-loop, an
\* edge between two nodes and a node without outlinks
C18_SelfLoopAndDangling ==
    /\ endpoint = "PageRank.calculate"
    /\ iterations = MaxIter
    /\ NoRepeatedEdges
    /\ \E i \in 1..Len(nodes) : EdgeCount(i, i) = 1
    /\ \E i, j \in 1..Len(nodes) : i # j /\ EdgeCount(j, i) = 1
    /\ \E j \in 1..Len(nodes) : OutDegreeCounted(j) = 0
    /\ \A i \in 1..Len(nodes) : R[i] = ScoreFrom(PreviousR, i)

----------------------------------------------------------------------------
(* C19 *)

\* C19: no request to the PageRank, HITS, comparison, degree or network-info
\* operations, and no step of an engine they run, changes the node list or the
\* edge list loaded at start, whether the requests are served one after the
\* other or by two threads at once; taking the history out of a result changes
\* neither.
C19_LoadedGraphUnchanged ==
    [][nodes' = nodes /\ edges' = edges]_vars

\* the comparison answered for a loaded graph with edges while the other
\* thread is inside the HITS loop of another request: both engines ran on the
\* lists, the answer is without history and the result PageRank returned still
\* has its own
C19_ComparedWithoutHistory ==
    /\ endpoint = "compare_algorithms"
    /\ pc = "done"
    /\ response.status = 200
    /\ edges # <<>>
    /\ response.body.pagerank.history = None
    /\ pagerank_result.history # <<>>
    /\ parked.endpoint = "run_hits"
    /\ parked.pc = "hits_loop"
    /\ parked.iterations = 1

----------------------------------------------------------------------------
(* Exact and floating-point comparison *)

\* no pass of either loop ends on a distance equal to the threshold, where
\* the rounding of the doubles would decide the comparison of pagerank.py
\* l. 124 and hits.py l. 102 rather than the distance
DistanceOffThreshold ==
    /\ (pc \in {"pr_loop", "pr_exit"} /\ iterations >= 1) =>
           L1Diff(R, PreviousR) # request.convergence_threshold
    /\ (pc \in {"hits_loop", "hits_exit"} /\ iterations >= 1) =>
           /\ ~L1DiffEqual(authority, HITSAfter(iterations - 1).authority,
                           request.convergence_threshold)
           /\ ~L1DiffEqual(hub, HITSAfter(iterations - 1).hub,
                           request.convergence_threshold)

----------------------------------------------------------------------------
(* C20 *)

\* the fairness condition is about the engine's own steps: a running call
\* takes engine steps only, and the engine steps are the advances
AdvanceIsEngineStep ==
    [][(CallRunning => EngineStep) /\ (EngineStep <=> EngineAdvance)]_vars

\* C20: the number of passes an engine has made never exceeds max_iterations,
\* converging or not, and every call that has started comes to its end.
C20_TerminatesWithinTheCap ==
    /\ [](iterations <= request.max_iterations)
    /\ CallRunning ~> pc = "done"

\* PageRank returned after max_iterations passes, the last of which did not
\* pass the convergence test
C20_StoppedByTheCap ==
    /\ PageRankCallOver
    /\ pagerank_result.raised = "none"
    /\ request.max_iterations = MaxIter
    /\ pagerank_result.iterations = MaxIter
    /\ ~Converged

====
